---------------------------- MODULE Spec2Model ----------------------------
(***************************************************************************)
(* Rule-based aspect span extraction (setfit/span/aspect_extractor.py):    *)
(* the Aspect value with its context expansion, the noun-chunk reducer,    *)
(* and AspectExtractor.__call__ for one annotated sentence: the right-to-  *)
(* left scan, the chunk merge, the placeholder substitution and the        *)
(* disambiguation of repeated aspects.                                     *)
(*                                                                         *)
(* Token and aspect-list positions are the 0-based Python indices; spans   *)
(* are half-open [start, stop).                                            *)
(***************************************************************************)
EXTENDS Integers, Sequences, FiniteSets, TLC

(***************************************************************************)
(* Bounds of the checked input families.                                   *)
(***************************************************************************)
\* longest sentence of the general family (rich vocabulary, any left edge)
MaxLen == 3
\* longest sentence of the repeated-mention family (small vocabulary)
MaxDupLen == 6
\* longest sentence of the chunk-reducer family (arbitrary ranges)
MaxChunkLen == 4

(***************************************************************************)
(* Program constants.                                                      *)
(***************************************************************************)
MAX_EXPANSION_LEFT == 2
MAX_EXPANSION_RIGHT == 3

NON_NOUN_ASPECTS ==
    {"acted", "directed", "edited", "emotionally", "filmed", "visually", "written"}

CHUNK_EXCEPTIONS ==
    {"emotional", "musical", "visual", "cinematic", "generated", "set", "special",
     "comic", "another", "other", "'s", "-", "/", ",", "and"}

CHUNK_STOP_WORDS == {"level", "minute", "minutes"}

MOVIE_SYNONYMS == {"entry", "flick", "film", "mess", "movie", "installment", "version"}

\* POS_WHITELIST = ('NOUN') is the string 'NOUN', so `pos_ in POS_WHITELIST`
\* is Python's substring test: these are the substrings of 'NOUN'.
POS_WHITELIST ==
    {"", "N", "O", "U", "NO", "OU", "UN", "NOU", "OUN", "NOUN"}

NOUN_SUBSTITUTE == "overall"

\* the joiners tested after a cut (line 170), compared with the surface text
JOINERS == {"'s", "-", "/", ",", "and"}

\* the surface texts no context expansion crosses (lines 60 and 65)
EXPANSION_STOPS == {",", ";"}

\* Python's None, for an Aspect's _context_start / _context_stop
None == -1

(***************************************************************************)
(* State.                                                                  *)
(***************************************************************************)
VARIABLES
    doc,          \* the annotated sentence: a sequence of tokens
    aspects,      \* the local list `aspects` of __call__
    aspects_list, \* the result list of __call__
    pc,           \* the position in __call__
    i,            \* the loop variable i of the loop at pc
    j,            \* the loop variable j of the disambiguation
    min_pos,      \* the scan's guard
    chunk,        \* the last result of _reduce_noun_chunk: <<>> is None
    range,        \* the arguments <<start, stop>> of that call
    e1, e2,       \* the results of the two expand() calls
    log           \* the warnings emitted: the index i of each

vars == <<doc, aspects, aspects_list, pc, i, j, min_pos, chunk, range, e1, e2, log>>

(***************************************************************************)
(* Tokens and spans.                                                       *)
(***************************************************************************)
Tok(d, k) == d[k + 1]

At(as, k) == as[k + 1]

\* token.whitespace_
Whitespace(t) == IF t.ws THEN " " ELSE ""

RECURSIVE TextWithWs(_, _, _)
TextWithWs(d, s, t) ==
    IF s >= t THEN ""
    ELSE Tok(d, s).text \o Whitespace(Tok(d, s)) \o TextWithWs(d, s + 1, t)

\* doc[s:t].text: the tokens' texts with their whitespace, less the last
\* token's trailing whitespace
SpanText(d, s, t) ==
    IF s >= t THEN ""
    ELSE TextWithWs(d, s, t - 1) \o Tok(d, t - 1).text

(***************************************************************************)
(* Aspect.                                                                 *)
(***************************************************************************)
NewAspect(start, stop, context_start, context_stop) ==
    [start |-> start, stop |-> stop,
     ctx_start |-> context_start, ctx_stop |-> context_stop,
     expansion_left |-> 0, expansion_right |-> 0,
     ordinal |-> 0]

ContextStart(a) == IF a.ctx_start = None THEN a.start ELSE a.ctx_start

ContextStop(a) == IF a.ctx_stop = None THEN a.stop ELSE a.ctx_stop

Text(d, a) == SpanText(d, a.start, a.stop)

Context(d, a) == SpanText(d, ContextStart(a), ContextStop(a))

\* Aspect.__eq__ with another Aspect
AspectEq(d, a, b) == Context(d, a) = Context(d, b)

\* Aspect.__eq__ with a string
AspectEqStr(d, a, s) == Text(d, a) = s

CanExpandLeft(d, a) ==
    /\ ContextStart(a) > 0
    /\ a.expansion_left < MAX_EXPANSION_LEFT
    /\ Tok(d, ContextStart(a) - 1).text \notin EXPANSION_STOPS

\* the right expansion without its cap
CanExpandRight_NoCap(d, a) ==
    /\ ContextStop(a) < Len(d)
    /\ Tok(d, ContextStop(a)).text \notin EXPANSION_STOPS

CanExpandRight(d, a) ==
    /\ ContextStop(a) < Len(d)
    /\ a.expansion_right < MAX_EXPANSION_RIGHT
    /\ Tok(d, ContextStop(a)).text \notin EXPANSION_STOPS

\* expand() returning True on its last line as well
Expand_AlwaysTrue(d, a) ==
    IF CanExpandLeft(d, a)
    THEN [aspect |-> [a EXCEPT !.ctx_start = ContextStart(a) - 1,
                               !.expansion_left = a.expansion_left + 1],
          ok |-> TRUE]
    ELSE IF CanExpandRight(d, a)
    THEN [aspect |-> [a EXCEPT !.ctx_stop = ContextStop(a) + 1,
                               !.expansion_right = a.expansion_right + 1],
          ok |-> TRUE]
    ELSE [aspect |-> a, ok |-> TRUE]

\* Aspect.expand(): the aspect afterwards and the value returned
Expand(d, a) ==
    IF CanExpandLeft(d, a)
    THEN [aspect |-> [a EXCEPT !.ctx_start = ContextStart(a) - 1,
                               !.expansion_left = a.expansion_left + 1],
          ok |-> TRUE]
    ELSE IF CanExpandRight(d, a)
    THEN [aspect |-> [a EXCEPT !.ctx_stop = ContextStop(a) + 1,
                               !.expansion_right = a.expansion_right + 1],
          ok |-> TRUE]
    ELSE [aspect |-> a, ok |-> FALSE]

(***************************************************************************)
(* AspectExtractor._reduce_noun_chunk.                                     *)
(***************************************************************************)
InPosWhitelist(pos) == pos \in POS_WHITELIST

\* lines 150-155: the first token that is no X / PUNCT and no "'s"
RECURSIVE FullStartFrom(_, _, _, _)
FullStartFrom(d, start, stop, k) ==
    IF k >= stop THEN start
    ELSE IF Tok(d, k).pos \notin {"X", "PUNCT"} /\ Tok(d, k).lower # "'s" THEN k
    ELSE FullStartFrom(d, start, stop, k + 1)

FullStart(d, start, stop) == FullStartFrom(d, start, stop, start)

\* line 161
KeepsWhole(d, full_start, k) ==
    /\ Tok(d, k).lower \in MOVIE_SYNONYMS
    /\ Tok(d, full_start).lower = "this"

\* line 164
CutsAt(d, k) ==
    \/ Tok(d, k).lower \in CHUNK_STOP_WORDS
    \/ /\ ~InPosWhitelist(Tok(d, k).pos)
       /\ Tok(d, k).lower \notin CHUNK_EXCEPTIONS

\* the cut past a joiner without the min(..., stop - 1) of line 171
CutStart_NoMin(d, stop, k) ==
    IF Tok(d, k + 1).text \in JOINERS THEN k + 3 ELSE k + 1

\* lines 170-173
CutStart(d, stop, k) ==
    IF Tok(d, k + 1).text \in JOINERS
    THEN (IF k + 3 < stop - 1 THEN k + 3 ELSE stop - 1)
    ELSE k + 1

\* the backward scan with the cut of line 164 tested before the "this ... movie"
\* pattern of line 161
RECURSIVE ReducedStartFrom_CutFirst(_, _, _, _)
ReducedStartFrom_CutFirst(d, full_start, stop, k) ==
    IF k < full_start THEN full_start
    ELSE IF CutsAt(d, k)
         THEN (IF k = stop - 1 THEN None ELSE CutStart(d, stop, k))
    ELSE IF KeepsWhole(d, full_start, k) THEN full_start
    ELSE ReducedStartFrom_CutFirst(d, full_start, stop, k - 1)

\* lines 159-175: the backward scan from k; None is the rejection
RECURSIVE ReducedStartFrom(_, _, _, _)
ReducedStartFrom(d, full_start, stop, k) ==
    IF k < full_start THEN full_start
    ELSE IF KeepsWhole(d, full_start, k) THEN full_start
    ELSE IF CutsAt(d, k)
         THEN (IF k = stop - 1 THEN None ELSE CutStart(d, stop, k))
    ELSE ReducedStartFrom(d, full_start, stop, k - 1)

ReducedStart(d, start, stop) ==
    ReducedStartFrom(d, FullStart(d, start, stop), stop, stop - 1)

\* _reduce_noun_chunk(doc, start, stop): <<>> is None
ReduceNounChunk(d, start, stop) ==
    IF ReducedStart(d, start, stop) = None THEN <<>>
    ELSE <<NewAspect(ReducedStart(d, start, stop), stop,
                     FullStart(d, start, stop), stop)>>


(***************************************************************************)
(* The input families: the annotated sentences the token source supplies.  *)
(***************************************************************************)
Word(text, lower, pos, ws) == [text |-> text, lower |-> lower, pos |-> pos, ws |-> ws]

\* the general family
Vocab ==
    {Word("plot", "plot", "NOUN", TRUE),
     Word("sub", "sub", "NOUN", FALSE),
     Word("good", "good", "ADJ", TRUE),
     Word(",", ",", "PUNCT", TRUE),
     Word("level", "level", "NOUN", TRUE),
     Word("overall", "overall", "ADV", TRUE),
     Word("acted", "acted", "VERB", TRUE),
     Word("This", "this", "DET", TRUE),
     Word("movie", "movie", "NOUN", TRUE)}

\* the repeated-mention family
DupVocab ==
    {Word("acting", "acting", "NOUN", TRUE),
     Word("plot", "plot", "NOUN", TRUE),
     Word("good", "good", "ADJ", TRUE),
     Word(",", ",", "PUNCT", TRUE)}

\* the chunk-reducer family
ChunkVocab ==
    {Word("This", "this", "DET", TRUE),
     Word("this", "this", "DET", TRUE),
     Word("movie", "movie", "NOUN", TRUE),
     Word("mess", "mess", "ADJ", TRUE),
     Word("long", "long", "ADJ", TRUE),
     Word(",", ",", "PUNCT", TRUE),
     Word("level", "level", "NOUN", TRUE),
     Word("plot", "plot", "NOUN", TRUE)}

\* the assignments of left edges to n tokens: left_edge.i <= i
RECURSIVE LeftEdges(_)
LeftEdges(n) ==
    IF n = 0 THEN {<<>>}
    ELSE {Append(e, x) : e \in LeftEdges(n - 1), x \in 0 .. n - 1}

\* each token is its own left edge
OwnEdges(n) == {[k \in 1 .. n |-> k - 1]}

MkDoc(w, e) ==
    [k \in 1 .. Len(w) |->
        [text |-> w[k].text, lower |-> w[k].lower, pos |-> w[k].pos,
         ws |-> w[k].ws, left_edge |-> e[k]]]

Start(d, at) ==
    /\ doc = d
    /\ aspects = <<>>
    /\ aspects_list = <<>>
    /\ pc = at
    /\ i = Len(d) - 1
    /\ j = 0
    /\ min_pos = Len(d)
    /\ chunk = <<>>
    /\ range = <<0, 0>>
    /\ e1 = FALSE
    /\ e2 = FALSE
    /\ log = <<>>

Init ==
    \E n \in 0 .. MaxLen :
        \E w \in [1 .. n -> Vocab], e \in LeftEdges(n) : Start(MkDoc(w, e), "scan")

InitDup ==
    \E n \in 0 .. MaxDupLen :
        \E w \in [1 .. n -> DupVocab], e \in OwnEdges(n) : Start(MkDoc(w, e), "scan")

InitChunk ==
    \E n \in 0 .. MaxChunkLen :
        \E w \in [1 .. n -> ChunkVocab], e \in OwnEdges(n) : Start(MkDoc(w, e), "reduce")

(***************************************************************************)
(* The sentence scan (lines 186-204): one iteration of the loop.           *)
(***************************************************************************)
\* the noun branch without line 199: the guard is left where it was
ScanNoun_NoGuard(d, as, mp, k) ==
    LET c == ReduceNounChunk(d, Tok(d, k).left_edge, k + 1) IN
    IF c # <<>> /\ ~AspectEqStr(d, c[1], "")
    THEN [aspects |-> <<c[1]>> \o as, min_pos |-> mp]
    ELSE [aspects |-> as, min_pos |-> mp]

\* lines 194-199, the noun branch: the list and the guard afterwards
ScanNoun(d, as, mp, k) ==
    LET c == ReduceNounChunk(d, Tok(d, k).left_edge, k + 1) IN
    IF c # <<>> /\ ~AspectEqStr(d, c[1], "")
    THEN [aspects |-> <<c[1]>> \o as, min_pos |-> ContextStart(c[1])]
    ELSE [aspects |-> as, min_pos |-> mp]

\* lines 202-204, the whitelisted non-noun branch
ScanNonNoun(d, as, mp, k) ==
    [aspects |-> <<NewAspect(k, k + 1, None, None)>> \o as, min_pos |-> k]

ScanToken(d, as, mp, k) ==
    IF k >= mp THEN [aspects |-> as, min_pos |-> mp]
    ELSE IF InPosWhitelist(Tok(d, k).pos) THEN ScanNoun(d, as, mp, k)
    ELSE IF Tok(d, k).lower \in NON_NOUN_ASPECTS THEN ScanNonNoun(d, as, mp, k)
    ELSE [aspects |-> as, min_pos |-> mp]

ScanStep ==
    /\ pc = "scan"
    /\ i >= 0
    /\ aspects' = ScanToken(doc, aspects, min_pos, i).aspects
    /\ min_pos' = ScanToken(doc, aspects, min_pos, i).min_pos
    /\ IF i < min_pos /\ InPosWhitelist(Tok(doc, i).pos)
       THEN /\ chunk' = ReduceNounChunk(doc, Tok(doc, i).left_edge, i + 1)
            /\ range' = <<Tok(doc, i).left_edge, i + 1>>
       ELSE UNCHANGED <<chunk, range>>
    /\ i' = i - 1
    /\ UNCHANGED <<doc, aspects_list, pc, j, e1, e2, log>>

\* the scan loop is exhausted: on to the merge loop, range(len(aspects) - 1, 0, -1)
ScanExit ==
    /\ pc = "scan"
    /\ i < 0
    /\ pc' = "merge"
    /\ i' = Len(aspects) - 1
    /\ UNCHANGED <<doc, aspects, aspects_list, j, min_pos, chunk, range, e1, e2, log>>

(***************************************************************************)
(* The chunk merge (lines 207-215): one iteration of the loop.             *)
(***************************************************************************)
\* line 209
Mergeable(d, a, b) ==
    /\ Whitespace(Tok(d, a.stop - 1)) = ""
    /\ a.stop = b.start

\* lines 211-213
Merged(a, b) == NewAspect(a.start, b.stop, ContextStart(a), ContextStop(b))

\* the list after the iteration for index k
MergeAt(d, as, k) ==
    IF Mergeable(d, At(as, k - 1), At(as, k))
    THEN [n \in 1 .. Len(as) - 1 |->
            IF n < k THEN as[n]
            ELSE IF n = k THEN Merged(At(as, k - 1), At(as, k))
            ELSE as[n + 1]]
    ELSE as

\* the pass `for i in range(len(aspects) - 1, 1, -1)`: the first pair is never looked at
MergeLoopEnds_SkipsFirst(k) == k < 2

\* line 207: range(len(aspects) - 1, 0, -1) is exhausted below 1
MergeLoopEnds(k) == k < 1

\* lines 207-215 as a whole: the pass from index k down
RECURSIVE MergeFrom(_, _, _)
MergeFrom(d, as, k) ==
    IF MergeLoopEnds(k) THEN as
    ELSE MergeFrom(d, MergeAt(d, as, k), k - 1)

MergePass(d, as) == MergeFrom(d, as, Len(as) - 1)

MergeStep ==
    /\ pc = "merge"
    /\ ~MergeLoopEnds(i)
    /\ aspects' = MergeAt(doc, aspects, i)
    /\ i' = i - 1
    /\ UNCHANGED <<doc, aspects_list, pc, j, min_pos, chunk, range, e1, e2, log>>

MergeExit ==
    /\ pc = "merge"
    /\ MergeLoopEnds(i)
    /\ pc' = "branch"
    /\ UNCHANGED <<doc, aspects, aspects_list, i, j, min_pos, chunk, range, e1, e2, log>>

(***************************************************************************)
(* The placeholder substitution (lines 218-220).                           *)
(***************************************************************************)
RECURSIVE PlaceholdersFrom(_, _)
PlaceholdersFrom(d, k) ==
    IF k >= Len(d) THEN <<>>
    ELSE IF Tok(d, k).lower = NOUN_SUBSTITUTE
         THEN <<NewAspect(k, k + 1, None, None)>> \o PlaceholdersFrom(d, k + 1)
    ELSE PlaceholdersFrom(d, k + 1)

Placeholders(d) == PlaceholdersFrom(d, 0)

\* the substitution also taken for a list of one aspect
NeedsSubstitute_AtMostOne(as) == Len(as) <= 1

\* line 218
NeedsSubstitute(as) == Len(as) = 0

Substitute ==
    /\ pc = "branch"
    /\ NeedsSubstitute(aspects)
    /\ aspects' = Placeholders(doc)
    /\ aspects_list' = Append(aspects_list, aspects')
    /\ pc' = "done"
    /\ UNCHANGED <<doc, i, j, min_pos, chunk, range, e1, e2, log>>


(***************************************************************************)
(* The disambiguation (lines 222-237).                                     *)
(***************************************************************************)
\* the loops `for i in range(len - 1)` / `for j in range(i + 1, len)`:
\* whether a pair follows (i, j), and which
HasNextPair(n, a, b) == b + 1 < n \/ a + 1 < n - 1

NextI(n, a, b) == IF b + 1 < n THEN a ELSE a + 1

NextJ(n, a, b) == IF b + 1 < n THEN b + 1 ELSE a + 2

\* the pair compared as Aspects (by context text) instead of by reduced text
SameText_ByContext(d, a, b) == AspectEq(d, a, b)

\* line 227
SameText(d, a, b) == Text(d, a) = Text(d, b)

\* the ordinal copied without the increment
OrdinalAfter_NoIncrement(a) == a.ordinal

\* line 228
OrdinalAfter(a) == a.ordinal + 1

\* line 230
StillEqual(d, a, b) == AspectEq(d, a, b)

\* line 234
Unexpandable(x, y) == ~(x \/ y)

\* the inner loop's body is over for the pair (i, j): the next pair, or the
\* sentence's list is appended (line 239)
Advance ==
    IF HasNextPair(Len(aspects'), i, j)
    THEN /\ i' = NextI(Len(aspects'), i, j)
         /\ j' = NextJ(Len(aspects'), i, j)
         /\ pc' = "pair"
         /\ UNCHANGED aspects_list
    ELSE /\ pc' = "done"
         /\ aspects_list' = Append(aspects_list, aspects')
         /\ UNCHANGED <<i, j>>

\* line 221 with line 224: a list of one aspect has no pair
DisambStart ==
    /\ pc = "branch"
    /\ ~NeedsSubstitute(aspects)
    /\ IF Len(aspects) >= 2
       THEN /\ pc' = "pair"
            /\ i' = 0
            /\ j' = 1
            /\ UNCHANGED aspects_list
       ELSE /\ pc' = "done"
            /\ aspects_list' = Append(aspects_list, aspects)
            /\ UNCHANGED <<i, j>>
    /\ UNCHANGED <<doc, aspects, min_pos, chunk, range, e1, e2, log>>

\* lines 227-228
PairStep ==
    /\ pc = "pair"
    /\ IF SameText(doc, At(aspects, i), At(aspects, j))
       THEN /\ aspects' = [aspects EXCEPT ![j + 1].ordinal = OrdinalAfter(At(aspects, i))]
            /\ pc' = "while"
            /\ UNCHANGED <<i, j, aspects_list>>
       ELSE /\ UNCHANGED aspects
            /\ Advance
    /\ UNCHANGED <<doc, min_pos, chunk, range, e1, e2, log>>

\* line 230
WhileTest ==
    /\ pc = "while"
    /\ UNCHANGED aspects
    /\ IF StillEqual(doc, At(aspects, i), At(aspects, j))
       THEN /\ pc' = "expand_i"
            /\ UNCHANGED <<i, j, aspects_list>>
       ELSE Advance
    /\ UNCHANGED <<doc, min_pos, chunk, range, e1, e2, log>>

\* line 231
ExpandI ==
    /\ pc = "expand_i"
    /\ aspects' = [aspects EXCEPT ![i + 1] = Expand(doc, At(aspects, i)).aspect]
    /\ e1' = Expand(doc, At(aspects, i)).ok
    /\ pc' = "expand_j"
    /\ UNCHANGED <<doc, aspects_list, i, j, min_pos, chunk, range, e2, log>>

\* line 232
ExpandJ ==
    /\ pc = "expand_j"
    /\ aspects' = [aspects EXCEPT ![j + 1] = Expand(doc, At(aspects, j)).aspect]
    /\ e2' = Expand(doc, At(aspects, j)).ok
    /\ pc' = "check"
    /\ UNCHANGED <<doc, aspects_list, i, j, min_pos, chunk, range, e1, log>>

\* lines 234-237
Check ==
    /\ pc = "check"
    /\ UNCHANGED aspects
    /\ IF Unexpandable(e1, e2)
       THEN /\ log' = Append(log, i)
            /\ Advance
       ELSE /\ pc' = "while"
            /\ UNCHANGED <<i, j, aspects_list, log>>
    /\ UNCHANGED <<doc, min_pos, chunk, range, e1, e2>>

(***************************************************************************)
(* _reduce_noun_chunk called on an arbitrary range of the sentence.        *)
(***************************************************************************)
ReduceCall ==
    /\ pc = "reduce"
    /\ \E start \in 0 .. Len(doc), stop \in 0 .. Len(doc) :
          /\ start <= stop
          /\ range' = <<start, stop>>
          /\ chunk' = ReduceNounChunk(doc, start, stop)
    /\ pc' = "reduced"
    /\ UNCHANGED <<doc, aspects, aspects_list, i, j, min_pos, e1, e2, log>>

(***************************************************************************)
(* Specifications.                                                         *)
(***************************************************************************)
Next ==
    \/ ScanStep
    \/ ScanExit
    \/ MergeStep
    \/ MergeExit
    \/ Substitute
    \/ DisambStart
    \/ PairStep
    \/ WhileTest
    \/ ExpandI
    \/ ExpandJ
    \/ Check

\* __call__ on one sentence of the general family
Spec == Init /\ [][Next]_vars

\* __call__ on one sentence of the repeated-mention family
DupSpec == InitDup /\ [][Next]_vars

\* the same, with the interpreter running the call to its end
DupLiveSpec == InitDup /\ [][Next]_vars /\ WF_vars(Next)

\* the chunk reducer on its own
ChunkSpec == InitChunk /\ [][ReduceCall]_vars


(***************************************************************************)
(* The properties checked.                                                 *)
(***************************************************************************)
\* the final list of the sentence, once __call__ has appended it
Final == aspects_list[1]

Returned == pc = "done"

\* 0 <= context_start <= start < stop <= context_stop <= len(sentence)
WellFormed(d, a) ==
    /\ 0 <= ContextStart(a)
    /\ ContextStart(a) <= a.start
    /\ a.start < a.stop
    /\ a.stop <= ContextStop(a)
    /\ ContextStop(a) <= Len(d)

\* C1: every Aspect that exists while a sentence is processed (the one the
\* chunk reducer returned, and every one in the list: scanned, merged,
\* substituted, expanded) has 0 <= context_start <= start < stop <=
\* context_stop <= len(sentence).
C1_SpansNested ==
    /\ \A n \in 1 .. Len(chunk) : WellFormed(doc, chunk[n])
    /\ \A n \in 1 .. Len(aspects) : WellFormed(doc, aspects[n])

\* an aspect expanded on both sides until its context is the whole sentence
C1_Witness ==
    /\ Returned
    /\ \E n \in 1 .. Len(aspects) :
          /\ aspects[n].expansion_left >= 1
          /\ aspects[n].expansion_right >= 1
          /\ ContextStart(aspects[n]) = 0
          /\ ContextStop(aspects[n]) = Len(doc)

\* C5: in the final list consecutive reduced spans do not overlap and are in
\* token order: a.stop <= b.start.
C5_OrderedDisjoint ==
    Returned =>
        \A n \in 1 .. Len(Final) - 1 : Final[n].stop <= Final[n + 1].start

\* a final list of a merged two-token aspect and the aspect that follows it
C5_Witness ==
    /\ Returned
    /\ Len(Final) = 2
    /\ Final[1].stop - Final[1].start = 2
    /\ Final[1].stop = Final[2].start
    /\ \A k \in 0 .. Len(doc) - 1 : Tok(doc, k).left_edge = k

\* C6: after the merge pass no adjacent pair still satisfies the merge
\* condition, and a second pass over its output changes nothing.
C6_MergeIdempotent ==
    pc = "branch" =>
        /\ \A n \in 1 .. Len(aspects) - 1 : ~Mergeable(doc, aspects[n], aspects[n + 1])
        /\ MergePass(doc, aspects) = aspects

\* three single-token chunks were merged into one aspect
C6_Witness ==
    /\ pc = "branch"
    /\ Len(doc) = 3
    /\ \A k \in 0 .. 2 : Tok(doc, k).left_edge = k
    /\ Len(aspects) = 1
    /\ aspects[1].start = 0
    /\ aspects[1].stop = 3

\* the tokens whose lowercased text is the placeholder
OverallTokens(d) == {k \in 0 .. Len(d) - 1 : Tok(d, k).lower = "overall"}

\* one single-token aspect per placeholder token, in token order
IsPlaceholderList(d, as) ==
    /\ Len(as) = Cardinality(OverallTokens(d))
    /\ \A n \in 1 .. Len(as) :
          /\ as[n].start \in OverallTokens(d)
          /\ as[n] = NewAspect(as[n].start, as[n].start + 1, None, None)
    /\ \A n \in 1 .. Len(as) - 1 : as[n].start < as[n + 1].start

Spans(as) == [n \in 1 .. Len(as) |-> <<as[n].start, as[n].stop>>]

\* C4: when the scan and the merge leave an empty list, the final list is one
\* single-token Aspect [k, k+1) per token whose lowercased text is 'overall',
\* in token order; when they leave a non-empty list, the final list has that
\* list's reduced spans and no other.
C4_PlaceholderSubstitution ==
    [][/\ (pc = "branch" /\ Len(aspects) = 0) =>
            /\ pc' = "done"
            /\ IsPlaceholderList(doc, aspects_list'[1])
       /\ (pc \in {"branch", "pair", "while", "expand_i", "expand_j", "check"}
             /\ Len(aspects) > 0) =>
            /\ Spans(aspects') = Spans(aspects)
            /\ (pc' = "done" => aspects_list'[1] = aspects')]_vars

\* two placeholder tokens were substituted
C4_Witness ==
    /\ Returned
    /\ Len(Final) = 2
    /\ IsPlaceholderList(doc, Final)
    /\ Len(doc) = 3

\* the first token of the range that is no X / PUNCT and no "'s", or the
\* range's first token when there is none
FirstContentToken(d, s, t) ==
    LET C == {k \in s .. t - 1 :
                 Tok(d, k).pos \notin {"X", "PUNCT"} /\ Tok(d, k).lower # "'s"}
    IN IF C = {} THEN s ELSE CHOOSE k \in C : \A m \in C : k <= m

\* C8: a range whose token at full_start is 'this' and whose last token is a
\* movie synonym is neither trimmed nor rejected: the reducer returns the
\* Aspect with reduced span = context span = [full_start, stop).
C8_ThisMovieKept ==
    (/\ pc = "reduced"
     /\ range[1] < range[2]
     /\ Tok(doc, FirstContentToken(doc, range[1], range[2])).lower = "this"
     /\ Tok(doc, range[2] - 1).lower \in MOVIE_SYNONYMS) =>
        /\ Len(chunk) = 1
        /\ chunk[1].start = FirstContentToken(doc, range[1], range[2])
        /\ chunk[1].stop = range[2]
        /\ ContextStart(chunk[1]) = chunk[1].start
        /\ ContextStop(chunk[1]) = chunk[1].stop

\* ", This long mess": punctuation is skipped, an adjective lies between and
\* the synonym itself is no noun
C8_Witness ==
    /\ pc = "reduced"
    /\ range = <<0, 4>>
    /\ Tok(doc, 0).pos = "PUNCT"
    /\ Tok(doc, 1).lower = "this"
    /\ Tok(doc, 2).lower = "long"
    /\ Tok(doc, 3).lower = "mess"
    /\ Tok(doc, 3).pos = "ADJ"
    /\ chunk = <<NewAspect(1, 4, 1, 4)>>

\* C2: in the final list any two aspects with equal reduced text have
\* different context texts, unless a warning was logged for the sentence.
C2_DistinctOrWarned ==
    Returned =>
        \/ log # <<>>
        \/ \A m \in 1 .. Len(Final), n \in 1 .. Len(Final) :
              (m < n /\ Text(doc, Final[m]) = Text(doc, Final[n]))
                  => Context(doc, Final[m]) # Context(doc, Final[n])

\* the first aspect of the list with the reduced text of the n-th
FirstOccurrence(d, as, n) ==
    CHOOSE m \in 1 .. n :
        /\ Text(d, as[m]) = Text(d, as[n])
        /\ \A k \in 1 .. m - 1 : Text(d, as[k]) # Text(d, as[n])

\* C3 as stated: every later aspect of a reduced text has the ordinal of the
\* first occurrence of that text plus 1.
C3_OneAboveFirst ==
    Returned =>
        \A n \in 1 .. Len(Final) :
            FirstOccurrence(doc, Final, n) < n
                => Final[n].ordinal = Final[FirstOccurrence(doc, Final, n)].ordinal + 1

\* C3 amended: of two aspects with equal reduced text and no aspect of that
\* text between them, the later has the earlier one's ordinal plus 1.
C3_OneAbovePrevious ==
    Returned =>
        \A m \in 1 .. Len(Final), n \in 1 .. Len(Final) :
            (/\ m < n
             /\ Text(doc, Final[m]) = Text(doc, Final[n])
             /\ \A k \in m + 1 .. n - 1 : Text(doc, Final[k]) # Text(doc, Final[n]))
                => Final[n].ordinal = Final[m].ordinal + 1

\* three mentions of one text with an aspect of another text between them
C3_Witness ==
    /\ Returned
    /\ Len(Final) = 4
    /\ Text(doc, Final[1]) = Text(doc, Final[3])
    /\ Text(doc, Final[1]) = Text(doc, Final[4])
    /\ Text(doc, Final[1]) # Text(doc, Final[2])
    /\ Final[3].ordinal = 1
    /\ Final[4].ordinal = 2

\* C10: after the disambiguation of a non-empty list each aspect's ordinal is
\* the number of aspects before it in the list with the same reduced text.
C10_OrdinalCountsEarlier ==
    (Returned /\ Len(Final) > 0) =>
        \A n \in 1 .. Len(Final) :
            Final[n].ordinal =
                Cardinality({m \in 1 .. n - 1 : Text(doc, Final[m]) = Text(doc, Final[n])})

\* four mentions of one text and two of another
C10_Witness ==
    /\ Returned
    /\ \E n \in 1 .. Len(Final) : Final[n].ordinal = 3
    /\ \E m \in 1 .. Len(Final), n \in 1 .. Len(Final) :
          /\ Text(doc, Final[m]) # Text(doc, Final[n])
          /\ Final[m].ordinal = 1
          /\ Final[n].ordinal = 1

WithinCaps(a) == a.expansion_left <= 2 /\ a.expansion_right <= 3

\* what one expand() call returning ok made of the aspect a: b
ExpandedBy(a, b, ok) ==
    IF ok
    THEN /\ b.start = a.start
         /\ b.stop = a.stop
         /\ b.ordinal = a.ordinal
         /\ \/ /\ ContextStart(b) = ContextStart(a) - 1
               /\ ContextStop(b) = ContextStop(a)
               /\ b.expansion_left = a.expansion_left + 1
               /\ b.expansion_right = a.expansion_right
            \/ /\ ContextStart(b) = ContextStart(a)
               /\ ContextStop(b) = ContextStop(a) + 1
               /\ b.expansion_left = a.expansion_left
               /\ b.expansion_right = a.expansion_right + 1
    ELSE b = a

\* C7: no Aspect ever has more than 2 left or 3 right expansions; an expand()
\* that succeeds widens the context span by exactly one token on one side,
\* one that fails leaves the Aspect as it was.
C7_ExpansionCaps ==
    [][/\ \A n \in 1 .. Len(aspects') : WithinCaps(aspects'[n])
       /\ pc = "expand_i" => ExpandedBy(aspects[i + 1], aspects'[i + 1], e1')
       /\ pc = "expand_j" => ExpandedBy(aspects[j + 1], aspects'[j + 1], e2')]_vars

\* an iteration in which the first call succeeded, using up the aspect's last
\* expansion, and the second call failed
C7_Witness ==
    /\ pc = "check"
    /\ e1
    /\ ~e2
    /\ aspects[i + 1].expansion_left = 2
    /\ aspects[i + 1].expansion_right = 3

\* C9: the disambiguation ends for every pair, so the call on a sentence
\* returns.
C9_Terminates == <>Returned

\* a call that returned after two unresolved pairs and a resolved one
C9_Witness ==
    /\ Returned
    /\ Len(log) >= 2
    /\ \E m \in 1 .. Len(Final), n \in 1 .. Len(Final) :
          /\ m < n
          /\ Text(doc, Final[m]) = Text(doc, Final[n])
          /\ Context(doc, Final[m]) # Context(doc, Final[n])
          /\ Final[m].expansion_right >= 1

=============================================================================
